---- MODULE Spec2Model ----
(***************************************************************************)
(* Model of the completion-detection engine of the email agent:            *)
(*   src/src/completion/completion_checker.py  (CompletionChecker)         *)
(*   src/src/completion/models.py              (CompletionResult)          *)
(*   src/src/completion/reply_resolver.py      (ReplyResolver)             *)
(*   src/src/tasks/task_manager.py             (TaskManager)               *)
(*   src/src/orchestrator/pipeline.py          (EmailAgentOrchestrator)    *)
(***************************************************************************)
EXTENDS Integers, Sequences, FiniteSets, TLC

\* ------------------------------------------------------------------------
\* Bounds
\* ------------------------------------------------------------------------
\* Largest number of message references the sent-mail list call returns.
MaxEmails == 3
\* Largest number of entries in the resolved_tasks list of an LLM response.
MaxEntries == 2

\* ------------------------------------------------------------------------
\* Universe of the task store and the mailbox
\* ------------------------------------------------------------------------
ThreadIds == {"T1", "T2", "T3"}
NoThread == "none"
TaskOrder == <<"t1", "t2", "t3">>
TaskIds == {"t1", "t2", "t3"}
NEEDS_ACTION == "needsAction"
COMPLETED == "completed"

Range(s) == {s[i] : i \in 1..Len(s)}

\* Outcomes of one call of complete_tasks_for_thread: the task listing
\* fails, the store rejects the completion request of one task, or nothing
\* fails.
NoFail == "no_fail"
ListFail == "list_fail"

VARIABLES
    tasks,              \* task store: id -> [source_thread_id, status]
    initial_tasks,      \* the task store as it was when the scan began
    reply_resolves,     \* ids ReplyResolver.resolve() returns for the replies
    pc,                 \* position of check_for_completions
    threads_with_tasks, \* local of check_for_completions
    processed_threads,  \* local of check_for_completions
    result,             \* the CompletionResult being accumulated
    remaining,          \* message references the generator has not fetched
    mail_calls,         \* calls made to the mail backend (list and get)
    seen,               \* sent emails yielded so far, per thread
    attempts,           \* per-thread resolution attempts made by the scan
    faults,             \* failures raised so far (thread ids and tags)
    rejected,           \* tasks whose completion request the store rejected
    r_pc,               \* position of ReplyResolver.resolve
    r_tasks,            \* the tasks argument of resolve
    r_attempt,          \* the loop variable attempt of resolve
    r_calls,            \* calls made to adapter.complete
    r_response,         \* the text the last call of adapter.complete returned
    r_result,           \* the list resolve returned
    r_error,            \* the exception that left resolve
    r_reply,            \* the reply_body and subject arguments of resolve
    r_adapter,          \* the adapter of the resolver: none, injected, created
    r_messages,         \* the local messages of resolve
    r_sent,             \* the requests passed to adapter.complete so far
    r_llm_outcome,      \* how the last call of adapter.complete ended
    d_calls,            \* direct calls made on the checker and the task manager
    d_last,             \* the last direct call and its outcome
    c_calls,            \* calls made on a CompletionResult
    completed_by_other, \* tasks another actor completed during the scan
    p_pc,               \* position of EmailAgentOrchestrator.run
    p_store,            \* source email ids of the tasks in the task store
    p_initial_store,    \* p_store as it was when run began
    p_emails,           \* the local emails of run
    p_analyses,         \* the local analyses of run: tasks found per email
    p_steps,            \* result.steps
    p_counts,           \* the locals errors, created, skipped and the cursor
    p_calls,            \* calls made to the analyzer and the task manager
    p_run,              \* which run of the pipeline is going on: 1 or 2
    p_first,            \* emails, analyses and steps of the first run
    w_scan,             \* which scan of the mailbox is going on: 1 or 2
    w_mailbox,          \* thread ids of the sent emails, in mailbox order
    w_first,            \* result and attempts of the first scan
    k_pc,               \* position of CommentInterpreter._process_task
    k_task,             \* the Task object _process_task works on
    k_initial,          \* k_task as it was passed in
    k_commands,         \* the local commands of _process_task
    k_index,            \* position of the loop over commands
    k_results,          \* the local results of _process_task
    k_should_delete,    \* the local should_delete of _process_task
    k_calls             \* calls made to the task manager, gmail and the LLM

scanVars == <<tasks, initial_tasks, reply_resolves, pc, threads_with_tasks,
              processed_threads, result, remaining, mail_calls, seen, attempts,
              faults, rejected>>

resolverVars == <<r_pc, r_tasks, r_attempt, r_calls, r_response, r_result, r_error,
                  r_reply, r_adapter, r_messages, r_sent, r_llm_outcome>>

directVars == <<d_calls, d_last>>

pipelineVars == <<p_pc, p_store, p_initial_store, p_emails, p_analyses, p_steps,
                  p_counts, p_calls>>

rerunVars == <<p_run, p_first>>

rescanVars == <<w_scan, w_mailbox, w_first>>

commentVars == <<k_pc, k_task, k_initial, k_commands, k_index, k_results,
                 k_should_delete, k_calls>>

laterVars == <<rerunVars, rescanVars, commentVars>>

auxVars == <<directVars, c_calls, completed_by_other, pipelineVars, laterVars>>

vars == <<scanVars, resolverVars, auxVars>>

\* ------------------------------------------------------------------------
\* CompletionResult (src/src/completion/models.py)
\* ------------------------------------------------------------------------
EmptyMap == [x \in {} |-> <<>>]

NewCompletionResult ==
    [sent_emails_scanned |-> 0,
     threads_matched     |-> 0,
     tasks_completed     |-> <<>>,
     thread_task_map     |-> EmptyMap,
     errors              |-> <<>>]

TotalCompleted(res) == Len(res.tasks_completed)

\* The f-strings that become entries of errors.  An entry names a thread
\* exactly when the thread id was interpolated into it.
TasksListError == [kind |-> "Failed to get threads with tasks", thread |-> NoThread]
AccessError == [kind |-> "Unable to access Sent Mail", thread |-> NoThread]
ThreadErrorUntagged(th) == [kind |-> "Failed to complete tasks for thread", thread |-> NoThread]
ThreadError(th) == [kind |-> "Failed to complete tasks for thread", thread |-> th]

AddError(res, error) == [res EXCEPT !.errors = Append(@, error)]

SetKey(m, k, v) == [x \in (DOMAIN m) \cup {k} |-> IF x = k THEN v ELSE m[x]]

\* tasks_completed.append(task_ids[0]) in place of extend(task_ids)
AddCompletedTasksAppendFirst(res, thread_id, task_ids) ==
    IF task_ids # <<>>
    THEN [res EXCEPT !.thread_task_map = SetKey(@, thread_id, task_ids),
                     !.tasks_completed = Append(@, Head(task_ids)),
                     !.threads_matched = @ + 1]
    ELSE res

AddCompletedTasks(res, thread_id, task_ids) ==
    IF task_ids # <<>>
    THEN [res EXCEPT !.thread_task_map = SetKey(@, thread_id, task_ids),
                     !.tasks_completed = @ \o task_ids,
                     !.threads_matched = @ + 1]
    ELSE res

RECURSIVE SumLens(_, _)
SumLens(m, D) ==
    IF D = {} THEN 0
    ELSE LET k == CHOOSE x \in D : TRUE
         IN Len(m[k]) + SumLens(m, D \ {k})

MapTotal(res) == SumLens(res.thread_task_map, DOMAIN res.thread_task_map)

\* ------------------------------------------------------------------------
\* TaskManager (src/src/tasks/task_manager.py)
\* ------------------------------------------------------------------------
\* show_completed ignored
ListTasksAll(store, show_completed) == TaskOrder

ListTasks(store, show_completed) ==
    SelectSeq(TaskOrder, LAMBDA t : show_completed \/ store[t].status = NEEDS_ACTION)

\* the thread comparison left out
FindTasksByThreadIdAnyThread(store, thread_id, include_completed) ==
    ListTasks(store, include_completed)

FindTasksByThreadId(store, thread_id, include_completed) ==
    SelectSeq(ListTasks(store, include_completed),
              LAMBDA t : store[t].source_thread_id = thread_id)

\* the status flipped in place of set
CompleteTaskToggle(store, task_id) ==
    [store EXCEPT ![task_id].status = IF @ = COMPLETED THEN NEEDS_ACTION ELSE COMPLETED]

CompleteTask(store, task_id) == [store EXCEPT ![task_id].status = COMPLETED]

RECURSIVE CompleteAll(_, _)
\* the completions reported and not written
CompleteAllNothing(store, ids) == store

CompleteAll(store, ids) ==
    IF ids = <<>> THEN store
    ELSE CompleteAll(CompleteTask(store, Head(ids)), Tail(ids))

IndexOf(s, e) == CHOOSE i \in 1..Len(s) : s[i] = e

\* the candidates taken with include_completed=True
CompleteTasksForThreadIncludeCompleted(store, thread_id, fail) ==
    LET cands == FindTasksByThreadId(store, thread_id, TRUE)
    IN IF fail = ListFail
       THEN [store |-> store, completed |-> <<>>, raised |-> TRUE]
       ELSE IF fail \in Range(cands)
       THEN [store     |-> CompleteAll(store, SubSeq(cands, 1, IndexOf(cands, fail) - 1)),
             completed |-> <<>>,
             raised    |-> TRUE]
       ELSE [store |-> CompleteAll(store, cands), completed |-> cands, raised |-> FALSE]

\* fail = ListFail: list_tasks raises before any task is touched;
\* fail = a candidate id: complete_task raises for that task, after the
\* candidates before it were completed; otherwise every candidate is
\* completed and returned.
CompleteTasksForThread(store, thread_id, fail) ==
    LET cands == FindTasksByThreadId(store, thread_id, FALSE)
    IN IF fail = ListFail
       THEN [store |-> store, completed |-> <<>>, raised |-> TRUE]
       ELSE IF fail \in Range(cands)
       THEN [store     |-> CompleteAll(store, SubSeq(cands, 1, IndexOf(cands, fail) - 1)),
             completed |-> <<>>,
             raised    |-> TRUE]
       ELSE [store |-> CompleteAll(store, cands), completed |-> cands, raised |-> FALSE]

\* ------------------------------------------------------------------------
\* CompletionChecker (src/src/completion/completion_checker.py)
\* ------------------------------------------------------------------------
\* the source_thread_id test left out
GetThreadIdsWithTasksUnfiltered(store, include_completed) ==
    {store[t].source_thread_id : t \in Range(ListTasks(store, include_completed))}

GetThreadIdsWithTasks(store, include_completed) ==
    {store[t].source_thread_id :
        t \in {u \in Range(ListTasks(store, include_completed)) :
                  store[u].source_thread_id # NoThread}}

\* A message as the mail backend returns it for format="metadata".
Missing == "missing"
Messages ==
    [threadId     : ThreadIds \cup {Missing},
     date         : {"rfc2822", "unparsable"},
     internalDate : {"digits", "garbage"}]

\* _parse_sent_message: message["threadId"] raises KeyError when the key is
\* absent; an unparsable Date header falls back to int(internalDate), which
\* raises ValueError on a non-numeric value.
ParseRaises(message) ==
    \/ message.threadId = Missing
    \/ message.date = "unparsable" /\ message.internalDate = "garbage"

\* the duplicate test left out
AlreadyProcessedNever(thread_id, processed) == FALSE

AlreadyProcessed(thread_id, processed) == thread_id \in processed

\* a fresh result carrying only the error
OnSentMailAccessErrorFresh(res) == AddError(NewCompletionResult, AccessError)

OnSentMailAccessError(res) == AddError(res, AccessError)

\* ------------------------------------------------------------------------
\* ReplyResolver (src/src/completion/reply_resolver.py)
\* ------------------------------------------------------------------------
MaxRetries == 2

\* A JSON value is written as the string of its text.  "yes" stands for a
\* value that is truthy without being the boolean true (a non-empty string,
\* a non-zero number), "[]" for a list, which Python cannot hash.
IdValues == {"t1", "t2", "zz", "null", "[]"}
ResolvedValues == {"true", "false", "yes", "null"}
Truthy(v) == v \in {"true", "yes", "t1", "t2", "zz", "[]"}
Hashable(v) == v # "[]"

\* An entry of resolved_tasks: a JSON object, given as the function from
\* the keys it has to their values, or a value that is not an object.
EntryKeys == {"task_id", "resolved"}
ObjectEntries ==
    UNION {[D -> IdValues \cup ResolvedValues] : D \in SUBSET EntryKeys}
Entries ==
    {e \in ObjectEntries :
        /\ "task_id" \in DOMAIN e => e["task_id"] \in IdValues
        /\ "resolved" \in DOMAIN e => e["resolved"] \in ResolvedValues}
    \cup {[scalar |-> "null"]}
IsObject(entry) == "scalar" \notin DOMAIN entry

EntryLists == UNION {[1..n -> Entries] : n \in 0..MaxEntries}

\* The text adapter.complete returns: not JSON at all, JSON that is not an
\* object, an object without resolved_tasks, an object whose resolved_tasks
\* is null or a number, or an object whose resolved_tasks is a list.
Responses ==
    [shape : {"not_json", "not_object", "no_key", "not_iterable"}, entries : {<<>>}]
    \cup [shape : {"list"}, entries : EntryLists]

\* The tasks lists resolve is called with; "null" is a task whose id is None.
ResolverTaskLists ==
    {<<>>, <<[id |-> "t1"]>>, <<[id |-> "t2"]>>, <<[id |-> "null"]>>,
     <<[id |-> "t1"], [id |-> "t2"]>>, <<[id |-> "t1"], [id |-> "null"]>>}

TaskIdsOf(task_list) == {task_list[i].id : i \in 1..Len(task_list)}

\* line 144
ValidIds(task_list) == {id \in TaskIdsOf(task_list) : id # "null"}

\* lines 149-150 and the hash taken by line 151: KeyError or TypeError
EntryRaises(entry) ==
    \/ ~IsObject(entry)
    \/ "task_id" \notin DOMAIN entry
    \/ "resolved" \notin DOMAIN entry
    \/ Truthy(entry["resolved"]) /\ ~Hashable(entry["task_id"])

\* the membership test left out
EntryResolvesUnchecked(entry, valid_ids) == Truthy(entry["resolved"])

\* line 151
EntryResolves(entry, valid_ids) ==
    Truthy(entry["resolved"]) /\ entry["task_id"] \in valid_ids

\* lines 145-157
RECURSIVE ResolvedIds(_, _)
ResolvedIds(entries, valid_ids) ==
    IF entries = <<>> THEN <<>>
    ELSE LET entry == Head(entries)
             rest == ResolvedIds(Tail(entries), valid_ids)
         IN IF EntryRaises(entry) THEN rest
            ELSE IF EntryResolves(entry, valid_ids)
                 THEN <<entry["task_id"]>> \o rest
                 ELSE rest

\* the except clause of lines 153-157 left out: a malformed entry is fatal
ParseResponseFatalEntries(response, task_list) ==
    CASE response.shape = "not_json" -> [raised |-> "LLMResponseError", ids |-> <<>>]
      [] response.shape = "not_object" -> [raised |-> "AttributeError", ids |-> <<>>]
      [] response.shape = "not_iterable" -> [raised |-> "TypeError", ids |-> <<>>]
      [] response.shape = "no_key" -> [raised |-> "none", ids |-> <<>>]
      [] OTHER ->
           IF \E i \in 1..Len(response.entries) : EntryRaises(response.entries[i])
           THEN [raised |-> "KeyError", ids |-> <<>>]
           ELSE [raised |-> "none",
                 ids |-> ResolvedIds(response.entries, ValidIds(task_list))]

\* _parse_response: json.loads raises LLMResponseError on text that is not
\* JSON; data.get raises AttributeError when data is not an object; the for
\* statement raises TypeError when resolved_tasks cannot be iterated.
ParseResponse(response, task_list) ==
    CASE response.shape = "not_json" -> [raised |-> "LLMResponseError", ids |-> <<>>]
      [] response.shape = "not_object" -> [raised |-> "AttributeError", ids |-> <<>>]
      [] response.shape = "not_iterable" -> [raised |-> "TypeError", ids |-> <<>>]
      [] response.shape = "no_key" -> [raised |-> "none", ids |-> <<>>]
      [] OTHER -> [raised |-> "none",
                   ids |-> ResolvedIds(response.entries, ValidIds(task_list))]

NoResponse == [shape |-> "none", entries |-> <<>>]

\* line 37
MAX_REPLY_LENGTH == 8000

\* The reply_body and subject resolve is called with; a body is given by
\* its length: empty, short, and longer than MAX_REPLY_LENGTH.
ReplyInputs ==
    {[body_len |-> 0, subject |-> "Re: report"],
     [body_len |-> 5, subject |-> ""],
     [body_len |-> MAX_REPLY_LENGTH + 1, subject |-> "Re: report"]}

NoReply == [body_len |-> 0, subject |-> ""]
NoMessages == [subject |-> "", body_len |-> 0, tasks_list |-> <<>>]

\* _build_messages, lines 96-122: the body is cut to MAX_REPLY_LENGTH and
\* put into the user prompt with the subject and the formatted tasks
BuildMessages(reply, task_list) ==
    [subject    |-> reply.subject,
     body_len   |-> IF reply.body_len > MAX_REPLY_LENGTH
                    THEN MAX_REPLY_LENGTH ELSE reply.body_len,
     tasks_list |-> task_list]

\* _get_adapter, lines 65-69
GetAdapter(adapter) == IF adapter = "none" THEN "created" ELSE adapter

\* the guard left out
NoTasksNever(task_list) == FALSE

\* line 179: if not tasks
NoTasks(task_list) == task_list = <<>>

AuthError == "LLMAuthenticationError"
RateLimitError == "LLMRateLimitError"
ConnectionError == "LLMConnectionError"
ResponseError == "LLMResponseError"
FatalErrors == {AuthError, RateLimitError, ConnectionError}

\* except LLMError in place of except LLMResponseError
CaughtForRetryAny(e) == TRUE

\* line 194: the only except clause of the retry loop
CaughtForRetry(e) == e = ResponseError

ResolverIdle ==
    /\ r_pc = "idle"
    /\ r_tasks = <<>>
    /\ r_attempt = 0
    /\ r_calls = 0
    /\ r_response = NoResponse
    /\ r_result = <<>>
    /\ r_error = "none"
    /\ r_reply = NoReply
    /\ r_adapter = "none"
    /\ r_messages = NoMessages
    /\ r_sent = {}
    /\ r_llm_outcome = "none"

\* ------------------------------------------------------------------------
\* Rest positions of the processes modelled further down
\* ------------------------------------------------------------------------
NoCall ==
    [op |-> "none", arg |-> "none", reply |-> FALSE, fault |-> "none",
     returned |-> <<>>, raised |-> "none"]

DirectIdle ==
    /\ d_calls = 0
    /\ d_last = NoCall

NoCounts == [cursor |-> 1, task |-> 1, errors |-> 0, created |-> 0, skipped |-> 0]
NoPipelineCalls == [analyze |-> 0, find |-> 0, create |-> 0]

PipelineIdle ==
    /\ p_pc = "idle"
    /\ p_store = [e \in {} |-> 0]
    /\ p_initial_store = p_store
    /\ p_emails = <<>>
    /\ p_analyses = <<>>
    /\ p_steps = <<>>
    /\ p_counts = NoCounts
    /\ p_calls = NoPipelineCalls

RerunIdle ==
    /\ p_run = 1
    /\ p_first = [emails |-> <<>>, analyses |-> <<>>, steps |-> <<>>]

RescanIdle ==
    /\ w_scan = 1
    /\ w_mailbox = <<>>
    /\ w_first = [result |-> NewCompletionResult, attempts |-> [th \in ThreadIds |-> 0]]

NoCommentCalls ==
    [update |-> 0, delete |-> 0, fetch |-> 0, llm |-> 0, send |-> 0, sent |-> 0]

CommentIdle ==
    /\ k_pc = "idle"
    /\ k_task = [notes |-> <<>>, status |-> NEEDS_ACTION, due |-> "none", linked |-> "none"]
    /\ k_initial = k_task
    /\ k_commands = <<>>
    /\ k_index = 1
    /\ k_results = <<>>
    /\ k_should_delete = FALSE
    /\ k_calls = NoCommentCalls

LaterIdle ==
    /\ RerunIdle
    /\ RescanIdle
    /\ CommentIdle

AuxIdle ==
    /\ DirectIdle
    /\ c_calls = 0
    /\ completed_by_other = {}
    /\ PipelineIdle
    /\ LaterIdle

Init ==
    /\ ResolverIdle
    /\ AuxIdle
    /\ tasks \in [TaskIds -> [source_thread_id : {"T1", "T2", NoThread},
                              status : {NEEDS_ACTION, COMPLETED}]]
    /\ initial_tasks = tasks
    /\ reply_resolves \in SUBSET TaskIds
    /\ pc = "start"
    /\ threads_with_tasks = {}
    /\ processed_threads = {}
    /\ result = NewCompletionResult
    /\ remaining = 0
    /\ mail_calls = 0
    /\ seen = [th \in ThreadIds |-> 0]
    /\ attempts = [th \in ThreadIds |-> 0]
    /\ faults = {}
    /\ rejected = {}

\* check_for_completions, lines 216-231, the task listing succeeds
BuildThreadIndex ==
    /\ pc = "start"
    /\ threads_with_tasks' = GetThreadIdsWithTasks(tasks, FALSE)
    /\ pc' = IF threads_with_tasks' = {} THEN "done" ELSE "list"
    /\ processed_threads' = {}
    /\ UNCHANGED <<resolverVars, auxVars, tasks, initial_tasks, reply_resolves, result, remaining,
                   mail_calls, seen, attempts, faults, rejected>>

\* check_for_completions, lines 220-224, list_tasks raises
BuildThreadIndexFails ==
    /\ pc = "start"
    /\ result' = AddError(result, TasksListError)
    /\ faults' = faults \cup {"tasks_list"}
    /\ pc' = "done"
    /\ UNCHANGED <<resolverVars, auxVars, tasks, initial_tasks, reply_resolves, threads_with_tasks,
                   processed_threads, remaining, mail_calls, seen, attempts,
                   rejected>>

\* fetch_sent_emails, lines 138-153: the list call returns n references
ListSentMessages ==
    /\ pc = "list"
    /\ \E n \in 0..MaxEmails : remaining' = n
    /\ mail_calls' = mail_calls + 1
    /\ pc' = "loop"
    /\ UNCHANGED <<resolverVars, auxVars, tasks, initial_tasks, reply_resolves, threads_with_tasks,
                   processed_threads, result, seen, attempts, faults, rejected>>

\* the increment left out
CountScannedNever(res) == res

\* line 236
CountScanned(res) == [res EXCEPT !.sent_emails_scanned = @ + 1]

\* the membership test left out
InOpenThreadsAlways(thread_id, threads) == TRUE

\* line 243
InOpenThreads(thread_id, threads) == thread_id \in threads

\* One iteration of the loop of check_for_completions (lines 235-255) over
\* the message the generator fetched and parsed (lines 155-169).
ScanStep(message, fail) ==
    LET th == message.threadId
        scanned == CountScanned(result)
        matched == ~AlreadyProcessed(th, processed_threads)
                   /\ InOpenThreads(th, threads_with_tasks)
        out == CompleteTasksForThread(tasks, th, fail)
    IN /\ ~ParseRaises(message)
       /\ mail_calls' = mail_calls + 1
       /\ remaining' = remaining - 1
       /\ seen' = [seen EXCEPT ![th] = @ + 1]
       /\ processed_threads' = processed_threads \cup {th}
       /\ IF matched
          THEN /\ fail \in {NoFail, ListFail}
                        \cup Range(FindTasksByThreadId(tasks, th, FALSE))
               /\ tasks' = out.store
               /\ attempts' = [attempts EXCEPT ![th] = @ + 1]
               /\ result' = IF out.raised
                            THEN AddError(scanned, ThreadError(th))
                            ELSE AddCompletedTasks(scanned, th, out.completed)
               /\ faults' = IF out.raised THEN faults \cup {th} ELSE faults
               /\ rejected' = IF fail \in TaskIds
                              THEN rejected \cup {fail} ELSE rejected
          ELSE /\ fail = NoFail
               /\ result' = scanned
               /\ UNCHANGED <<tasks, attempts, faults, rejected>>

\* The next message of the mailbox goes through the loop.
ScanEmail ==
    /\ pc = "loop"
    /\ remaining > 0
    /\ \E message \in Messages, fail \in {NoFail, ListFail} \cup TaskIds :
        ScanStep(message, fail)
    /\ UNCHANGED <<resolverVars, auxVars, initial_tasks, reply_resolves, pc, threads_with_tasks>>

\* The list call or a get call raises HttpError: fetch_sent_emails raises
\* SentMailAccessError (lines 171-172), caught at lines 257-258.
MailAccessFails ==
    /\ \/ pc = "list"
       \/ pc = "loop" /\ remaining > 0
    /\ mail_calls' = mail_calls + 1
    /\ result' = OnSentMailAccessError(result)
    /\ faults' = faults \cup {"mail_access"}
    /\ pc' = "done"
    /\ UNCHANGED <<resolverVars, auxVars, tasks, initial_tasks, reply_resolves, threads_with_tasks,
                   processed_threads, remaining, seen, attempts, rejected>>

\* The gmail service cannot be built or a call raises something other than
\* HttpError (lines 139-167): neither except clause matches.
MailCallRaisesOther ==
    /\ \/ pc = "list"
       \/ pc = "loop" /\ remaining > 0
    /\ mail_calls' = mail_calls + 1
    /\ faults' = faults \cup {"mail_other"}
    /\ pc' = "raised"
    /\ UNCHANGED <<resolverVars, auxVars, tasks, initial_tasks, reply_resolves, threads_with_tasks,
                   processed_threads, result, remaining, seen, attempts,
                   rejected>>

\* The fetched message makes _parse_sent_message raise (lines 84-110).
ParseFails ==
    /\ pc = "loop"
    /\ remaining > 0
    /\ \E message \in Messages : ParseRaises(message)
    /\ mail_calls' = mail_calls + 1
    /\ faults' = faults \cup {"parse"}
    /\ pc' = "raised"
    /\ UNCHANGED <<resolverVars, auxVars, tasks, initial_tasks, reply_resolves, threads_with_tasks,
                   processed_threads, result, remaining, seen, attempts,
                   rejected>>

\* The generator is exhausted: line 260 returns the result.
ScanEnd ==
    /\ pc = "loop"
    /\ remaining = 0
    /\ pc' = "done"
    /\ UNCHANGED <<resolverVars, auxVars, tasks, initial_tasks, reply_resolves, threads_with_tasks,
                   processed_threads, result, remaining, mail_calls, seen,
                   attempts, faults, rejected>>

Next ==
    \/ BuildThreadIndex
    \/ BuildThreadIndexFails
    \/ ListSentMessages
    \/ ScanEmail
    \/ MailAccessFails
    \/ MailCallRaisesOther
    \/ ParseFails
    \/ ScanEnd

Spec == Init /\ [][Next]_vars

\* ------------------------------------------------------------------------
\* ReplyResolver.resolve as a process of its own
\* ------------------------------------------------------------------------
ScanIdle ==
    /\ tasks = [t \in TaskIds |-> [source_thread_id |-> NoThread, status |-> NEEDS_ACTION]]
    /\ initial_tasks = tasks
    /\ reply_resolves = {}
    /\ pc = "idle"
    /\ threads_with_tasks = {}
    /\ processed_threads = {}
    /\ result = NewCompletionResult
    /\ remaining = 0
    /\ mail_calls = 0
    /\ seen = [th \in ThreadIds |-> 0]
    /\ attempts = [th \in ThreadIds |-> 0]
    /\ faults = {}
    /\ rejected = {}

ResolveInit ==
    /\ ScanIdle
    /\ AuxIdle
    /\ r_pc = "call"
    /\ r_tasks \in ResolverTaskLists
    /\ r_attempt = 0
    /\ r_calls = 0
    /\ r_response = NoResponse
    /\ r_result = <<>>
    /\ r_error = "none"
    /\ r_reply \in ReplyInputs
    /\ r_adapter \in {"none", "injected"}
    /\ r_messages = NoMessages
    /\ r_sent = {}
    /\ r_llm_outcome = "none"

\* lines 179-180
ResolveEmpty ==
    /\ r_pc = "call"
    /\ NoTasks(r_tasks)
    /\ r_pc' = "returned"
    /\ r_result' = <<>>
    /\ UNCHANGED <<scanVars, auxVars, r_tasks, r_attempt, r_calls, r_response, r_error,
                   r_reply, r_adapter, r_messages, r_sent, r_llm_outcome>>

\* lines 182-186
ResolveBegin ==
    /\ r_pc = "call"
    /\ ~NoTasks(r_tasks)
    /\ r_adapter' = GetAdapter(r_adapter)
    /\ r_messages' = BuildMessages(r_reply, r_tasks)
    /\ r_pc' = "attempt"
    /\ r_attempt' = 0
    /\ UNCHANGED <<scanVars, auxVars, r_tasks, r_calls, r_response, r_result, r_error,
                   r_reply, r_sent, r_llm_outcome>>

\* lines 194-198: the handler of LLMResponseError
OnResponseError ==
    IF r_attempt < MaxRetries
    THEN /\ r_attempt' = r_attempt + 1
         /\ UNCHANGED <<r_pc, r_error>>
    ELSE /\ r_pc' = "raised"
         /\ r_error' = ResponseError
         /\ UNCHANGED r_attempt

\* lines 188-198: adapter.complete returns a text, which is parsed
LLMReturns ==
    /\ r_pc = "attempt"
    /\ \E response \in Responses :
        LET parsed == ParseResponse(response, r_tasks)
        IN /\ r_calls' = r_calls + 1
           /\ r_sent' = r_sent \cup {r_messages}
           /\ r_llm_outcome' = "returned"
           /\ r_response' = response
           /\ CASE parsed.raised = "none" ->
                    /\ r_pc' = "returned"
                    /\ r_result' = parsed.ids
                    /\ UNCHANGED <<r_attempt, r_error>>
                [] parsed.raised = ResponseError ->
                    /\ OnResponseError
                    /\ UNCHANGED r_result
                [] OTHER ->
                    /\ r_pc' = "raised"
                    /\ r_error' = parsed.raised
                    /\ UNCHANGED <<r_attempt, r_result>>
    /\ UNCHANGED <<scanVars, auxVars, r_tasks, r_reply, r_adapter, r_messages>>

\* adapter.complete raises LLMResponseError itself (openai_adapter.py,
\* lines 114-142): handled like a parse failure
LLMRaisesResponseError ==
    /\ r_pc = "attempt"
    /\ r_calls' = r_calls + 1
    /\ r_sent' = r_sent \cup {r_messages}
    /\ r_llm_outcome' = ResponseError
    /\ OnResponseError
    /\ UNCHANGED <<scanVars, auxVars, r_tasks, r_response, r_result, r_reply, r_adapter,
                   r_messages>>

\* adapter.complete raises an authentication, rate-limit or connection
\* error: no except clause of resolve matches it
LLMRaisesOther ==
    /\ r_pc = "attempt"
    /\ r_calls' = r_calls + 1
    /\ r_sent' = r_sent \cup {r_messages}
    /\ \E e \in FatalErrors :
        /\ r_llm_outcome' = e
        /\ IF CaughtForRetry(e)
           THEN OnResponseError
           ELSE /\ r_error' = e
                /\ r_pc' = "raised"
                /\ UNCHANGED r_attempt
    /\ UNCHANGED <<scanVars, auxVars, r_tasks, r_response, r_result, r_reply, r_adapter,
                   r_messages>>

ResolveNext ==
    \/ ResolveEmpty
    \/ ResolveBegin
    \/ LLMReturns
    \/ LLMRaisesResponseError
    \/ LLMRaisesOther

SpecResolve == ResolveInit /\ [][ResolveNext]_vars

\* ------------------------------------------------------------------------
\* Direct calls of CompletionChecker.check_thread and TaskManager.complete_task
\* ------------------------------------------------------------------------
\* Largest number of calls a client makes in one behaviour.
MaxCalls == 2

ApiFail == "api_fail"
UnknownTask == "zz"

DirectInit ==
    /\ ResolverIdle
    /\ AuxIdle
    /\ tasks \in [TaskIds -> [source_thread_id : {"T1", "T2", NoThread},
                              status : {NEEDS_ACTION, COMPLETED}]]
    /\ initial_tasks = tasks
    /\ reply_resolves \in {{}, {"t1"}, TaskIds}
    /\ pc = "idle"
    /\ threads_with_tasks = {}
    /\ processed_threads = {}
    /\ result = NewCompletionResult
    /\ remaining = 0
    /\ mail_calls = 0
    /\ seen = [th \in ThreadIds |-> 0]
    /\ attempts = [th \in ThreadIds |-> 0]
    /\ faults = {}
    /\ rejected = {}

DirectFrame ==
    UNCHANGED <<resolverVars, c_calls, completed_by_other, pipelineVars, laterVars,
                initial_tasks, reply_resolves, pc, threads_with_tasks,
                processed_threads, result, remaining, mail_calls, seen, attempts,
                faults, rejected>>

\* task_manager.py, lines 357-375: get_task raises TaskNotFoundError for an
\* id the store does not hold, the API call raises TasksAPIError when the
\* backend fails, otherwise the task is written back as completed,
\* whatever its status was
CallCompleteTask ==
    /\ d_calls < MaxCalls
    /\ d_calls' = d_calls + 1
    /\ \E task_id \in TaskIds \cup {UnknownTask}, fault \in {NoFail, ApiFail} :
        LET raised == IF task_id \notin TaskIds THEN "TaskNotFoundError"
                      ELSE IF fault = ApiFail THEN "TasksAPIError"
                      ELSE "none"
        IN /\ tasks' = IF raised = "none" THEN CompleteTask(tasks, task_id) ELSE tasks
           /\ d_last' = [op       |-> "complete_task",
                         arg      |-> task_id,
                         reply    |-> FALSE,
                         fault    |-> fault,
                         returned |-> IF raised = "none" THEN <<task_id>> ELSE <<>>,
                         raised   |-> raised]
    /\ DirectFrame

\* completion_checker.py, lines 262-275: check_thread takes the thread id
\* only, so a call that also passes reply_body and subject raises
\* TypeError; the one-argument call completes every open task of the
\* thread and lets a failure of the task manager through
CallCheckThread ==
    /\ d_calls < MaxCalls
    /\ d_calls' = d_calls + 1
    /\ \E thread_id \in ThreadIds, with_reply \in BOOLEAN,
          fail \in {NoFail, ListFail} \cup TaskIds :
        LET out == CompleteTasksForThread(tasks, thread_id, fail)
        IN /\ fail \in {NoFail, ListFail}
                       \cup Range(FindTasksByThreadId(tasks, thread_id, FALSE))
           /\ with_reply => fail = NoFail
           /\ tasks' = IF with_reply THEN tasks ELSE out.store
           /\ d_last' = [op       |-> "check_thread",
                         arg      |-> thread_id,
                         reply    |-> with_reply,
                         fault    |-> fail,
                         returned |-> IF with_reply THEN <<>> ELSE out.completed,
                         raised   |-> IF with_reply THEN "TypeError"
                                      ELSE IF out.raised THEN "TasksAPIError"
                                      ELSE "none"]
    /\ DirectFrame

DirectNext ==
    \/ CallCompleteTask
    \/ CallCheckThread

SpecDirect == DirectInit /\ [][DirectNext]_vars

\* ------------------------------------------------------------------------
\* EmailAgentOrchestrator.run (src/src/orchestrator/pipeline.py)
\* ------------------------------------------------------------------------
\* Largest number of emails fetch_unread returns.
MaxFetched == 2
\* Largest number of tasks the analyzer extracts from one email.
MaxTasksPerEmail == 2

EmailIds == 1..MaxFetched

\* The lists fetch_unread returns: distinct messages of the mailbox.
FetchedLists ==
    {l \in UNION {[1..n -> EmailIds] : n \in 0..MaxFetched} :
        \A i, j \in 1..Len(l) : i # j => l[i] # l[j]}

\* orchestrator/models.py, lines 8-16: the fields of StepResult
StepResultFields == {"name", "success", "duration_seconds", "details", "error"}

\* pipeline.py, lines 71-80: the keywords _skip_step passes to StepResult
SkipStepKeywords == {"name", "success", "duration_seconds", "details", "skipped"}

\* A dataclass constructor raises TypeError on a keyword that is not a field.
SkipStepRaises == ~(SkipStepKeywords \subseteq StepResultFields)

SkippedStep(name) ==
    [name |-> name, success |-> FALSE, details |-> <<>>, error |-> "none",
     skipped |-> TRUE]

\* _run_step, lines 82-103
StepOk(name, details) ==
    [name |-> name, success |-> TRUE, details |-> details, error |-> "none"]
StepFailed(name, error) ==
    [name |-> name, success |-> FALSE, details |-> <<>>, error |-> error]

\* orchestrator/models.py, lines 27-29
PipelineSuccess(steps) == \A i \in 1..Len(steps) : steps[i].success

\* line 159
RECURSIVE TotalTasks(_)
TotalTasks(analyses) ==
    IF analyses = <<>> THEN 0
    ELSE Head(analyses).n_tasks + TotalTasks(Tail(analyses))

\* The source_email_id of the tasks in the order the loops of lines 189-190
\* visit them; the analyzer gives every task the id of its email
\* (email_analyzer.py, line 125).
RECURSIVE ExtractedTasks(_)
ExtractedTasks(analyses) ==
    IF analyses = <<>> THEN <<>>
    ELSE [i \in 1..Head(analyses).n_tasks |-> Head(analyses).email]
         \o ExtractedTasks(Tail(analyses))

\* no task found, whatever the store holds
FindTasksByEmailIdNone(store, email_id) == 0

\* task_manager.py, lines 461-481
FindTasksByEmailId(store, email_id) == store[email_id]

\* task_manager.py, lines 397-434
CreateFromExtractedTask(store, email_id) == [store EXCEPT ![email_id] = @ + 1]

PipelineInit ==
    /\ ResolverIdle
    /\ ScanIdle
    /\ DirectIdle
    /\ c_calls = 0
    /\ completed_by_other = {}
    /\ LaterIdle
    /\ p_pc = "fetch"
    /\ p_store \in [EmailIds -> 0..1]
    /\ p_initial_store = p_store
    /\ p_emails = <<>>
    /\ p_analyses = <<>>
    /\ p_steps = <<>>
    /\ p_counts = NoCounts
    /\ p_calls = NoPipelineCalls

PipelineFrame ==
    UNCHANGED <<scanVars, resolverVars, directVars, c_calls, completed_by_other,
                laterVars, p_initial_store>>

\* run leaves through _skip_step: lines 134-138 and 176-179
SkipRest(steps, names) ==
    IF SkipStepRaises
    THEN /\ p_pc' = "raised"
         /\ p_steps' = steps
    ELSE /\ p_pc' = "returned"
         /\ p_steps' = steps \o [i \in 1..Len(names) |-> SkippedStep(names[i])]

\* lines 123-131, fetch_unread returns
FetchEmails ==
    /\ p_pc = "fetch"
    /\ \E fetched \in FetchedLists :
        /\ p_emails' = fetched
        /\ p_steps' = <<StepOk("fetch", [emails_fetched |-> Len(fetched)])>>
    /\ p_pc' = "analyze"
    /\ PipelineFrame
    /\ UNCHANGED <<p_store, p_analyses, p_counts, p_calls>>

\* lines 123-138, fetch_unread raises: the step is recorded as failed and
\* the two later steps are to be recorded as skipped
FetchFails ==
    /\ p_pc = "fetch"
    /\ SkipRest(<<StepFailed("fetch", "fetch_unread raised")>>,
                <<"analyze", "create_tasks">>)
    /\ PipelineFrame
    /\ UNCHANGED <<p_store, p_emails, p_analyses, p_counts, p_calls>>

\* lines 147-150: the analyzer returns the tasks of the next email
AnalyzeEmail ==
    /\ p_pc = "analyze"
    /\ p_counts.cursor <= Len(p_emails)
    /\ \E n \in 0..MaxTasksPerEmail :
        p_analyses' = Append(p_analyses,
                             [email |-> p_emails[p_counts.cursor], n_tasks |-> n])
    /\ p_counts' = [p_counts EXCEPT !.cursor = @ + 1]
    /\ p_calls' = [p_calls EXCEPT !.analyze = @ + 1]
    /\ PipelineFrame
    /\ UNCHANGED <<p_pc, p_store, p_emails, p_steps>>

\* lines 151-157: the analyzer raises for the next email
AnalyzeEmailFails ==
    /\ p_pc = "analyze"
    /\ p_counts.cursor <= Len(p_emails)
    /\ p_counts' = [p_counts EXCEPT !.cursor = @ + 1, !.errors = @ + 1]
    /\ p_calls' = [p_calls EXCEPT !.analyze = @ + 1]
    /\ PipelineFrame
    /\ UNCHANGED <<p_pc, p_store, p_emails, p_analyses, p_steps>>

\* lines 145 and 172-179: the analyzer cannot be built, the step fails and
\* create_tasks is to be recorded as skipped
AnalyzerUnavailable ==
    /\ p_pc = "analyze"
    /\ p_emails # <<>>
    /\ p_counts.cursor = 1
    /\ SkipRest(Append(p_steps, StepFailed("analyze", "analyzer unavailable")),
                <<"create_tasks">>)
    /\ PipelineFrame
    /\ UNCHANGED <<p_store, p_emails, p_analyses, p_counts, p_calls>>

\* lines 142-143 and 159-173: the analyze step ends
AnalyzeEnd ==
    /\ p_pc = "analyze"
    /\ p_counts.cursor > Len(p_emails)
    /\ p_steps' = Append(p_steps,
                         StepOk("analyze",
                                [emails_analyzed |-> Len(p_analyses),
                                 tasks_found     |-> TotalTasks(p_analyses),
                                 errors          |-> p_counts.errors]))
    /\ p_counts' = [p_counts EXCEPT !.cursor = 1]
    /\ p_pc' = "create"
    /\ PipelineFrame
    /\ UNCHANGED <<p_store, p_emails, p_analyses, p_calls>>

\* lines 189-201: one extracted task
CreateTask ==
    /\ p_pc = "create"
    /\ p_counts.cursor <= Len(ExtractedTasks(p_analyses))
    /\ LET email_id == ExtractedTasks(p_analyses)[p_counts.cursor]
           existing == FindTasksByEmailId(p_store, email_id)
       IN IF existing > 0
          THEN /\ p_counts' = [p_counts EXCEPT !.cursor = @ + 1, !.skipped = @ + 1]
               /\ p_calls' = [p_calls EXCEPT !.find = @ + 1]
               /\ UNCHANGED p_store
          ELSE /\ p_store' = CreateFromExtractedTask(p_store, email_id)
               /\ p_counts' = [p_counts EXCEPT !.cursor = @ + 1, !.created = @ + 1]
               /\ p_calls' = [p_calls EXCEPT !.find = @ + 1, !.create = @ + 1]
    /\ PipelineFrame
    /\ UNCHANGED <<p_pc, p_emails, p_analyses, p_steps>>

\* lines 189-201 and 208: the task manager raises, the step fails
CreateTaskFails ==
    /\ p_pc = "create"
    /\ p_counts.cursor <= Len(ExtractedTasks(p_analyses))
    /\ p_calls' = [p_calls EXCEPT !.find = @ + 1]
    /\ p_steps' = Append(p_steps, StepFailed("create_tasks", "task manager raised"))
    /\ p_pc' = "returned"
    /\ PipelineFrame
    /\ UNCHANGED <<p_store, p_emails, p_analyses, p_counts>>

\* lines 182-183 and 203-211: the create_tasks step ends and run returns
CreateEnd ==
    /\ p_pc = "create"
    /\ p_counts.cursor > Len(ExtractedTasks(p_analyses))
    /\ p_steps' = Append(p_steps,
                         StepOk("create_tasks",
                                [tasks_created      |-> p_counts.created,
                                 duplicates_skipped |-> p_counts.skipped]))
    /\ p_pc' = "returned"
    /\ PipelineFrame
    /\ UNCHANGED <<p_store, p_emails, p_analyses, p_counts, p_calls>>

PipelineNext ==
    \/ FetchEmails
    \/ FetchFails
    \/ AnalyzeEmail
    \/ AnalyzeEmailFails
    \/ AnalyzerUnavailable
    \/ AnalyzeEnd
    \/ CreateTask
    \/ CreateTaskFails
    \/ CreateEnd

SpecPipeline == PipelineInit /\ [][PipelineNext]_vars

\* ------------------------------------------------------------------------
\* A client calling the methods of one CompletionResult
\* ------------------------------------------------------------------------
\* Longest id list passed to add_completed_tasks.
MaxIds == 2

IdLists == UNION {[1..n -> TaskIds] : n \in 0..MaxIds}

ResultInit ==
    /\ ResolverIdle
    /\ ScanIdle
    /\ AuxIdle

ResultFrame ==
    UNCHANGED <<resolverVars, directVars, completed_by_other, pipelineVars, laterVars,
                tasks,
                initial_tasks, reply_resolves, pc, threads_with_tasks,
                processed_threads, remaining, mail_calls, seen, attempts, faults,
                rejected>>

\* models.py, lines 112-123
CallAddCompletedTasks ==
    /\ c_calls < MaxCalls
    /\ c_calls' = c_calls + 1
    /\ \E thread_id \in ThreadIds, task_ids \in IdLists :
        result' = AddCompletedTasks(result, thread_id, task_ids)
    /\ ResultFrame

\* models.py, lines 125-127
CallAddError ==
    /\ c_calls < MaxCalls
    /\ c_calls' = c_calls + 1
    /\ \E error \in {AccessError, TasksListError} : result' = AddError(result, error)
    /\ ResultFrame

ResultNext ==
    \/ CallAddCompletedTasks
    \/ CallAddError

SpecResult == ResultInit /\ [][ResultNext]_vars

\* ------------------------------------------------------------------------
\* The scan running while another client of the task store completes tasks
\* ------------------------------------------------------------------------
ConcInit ==
    /\ Init
    /\ reply_resolves = {}

\* Another client calls complete_task (task_manager.py, lines 357-375) on an
\* open task after the scan built its thread set and before the scan ends.
OtherActorCompletes ==
    /\ pc \in {"list", "loop"}
    /\ \E t \in TaskIds :
        /\ tasks[t].status = NEEDS_ACTION
        /\ tasks' = CompleteTask(tasks, t)
        /\ completed_by_other' = completed_by_other \cup {t}
    /\ UNCHANGED <<resolverVars, directVars, c_calls, pipelineVars, laterVars,
                   initial_tasks,
                   reply_resolves, pc, threads_with_tasks, processed_threads, result,
                   remaining, mail_calls, seen, attempts, faults, rejected>>

ConcNext ==
    \/ BuildThreadIndex
    \/ BuildThreadIndexFails
    \/ ListSentMessages
    \/ ScanEmail
    \/ MailAccessFails
    \/ MailCallRaisesOther
    \/ ParseFails
    \/ ScanEnd
    \/ OtherActorCompletes

SpecConc == ConcInit /\ [][ConcNext]_vars

\* ------------------------------------------------------------------------
\* Two calls of EmailAgentOrchestrator.run over the same unread emails
\* ------------------------------------------------------------------------
FirstFetchEmails == p_run = 1 /\ FetchEmails
FirstAnalyzeEmail == p_run = 1 /\ AnalyzeEmail
FirstAnalyzeEmailFails == p_run = 1 /\ AnalyzeEmailFails

\* run has returned (line 211) and is called again: a new PipelineResult
\* and new locals (lines 120-121), over the task store the first call left
RunAgain ==
    /\ p_pc = "returned"
    /\ p_run = 1
    /\ p_run' = 2
    /\ p_first' = [emails |-> p_emails, analyses |-> p_analyses, steps |-> p_steps]
    /\ p_initial_store' = p_store
    /\ p_pc' = "fetch"
    /\ p_emails' = <<>>
    /\ p_analyses' = <<>>
    /\ p_steps' = <<>>
    /\ p_counts' = NoCounts
    /\ p_calls' = NoPipelineCalls
    /\ UNCHANGED <<scanVars, resolverVars, directVars, c_calls, completed_by_other,
                   rescanVars, commentVars, p_store>>

\* lines 123-131 in the second call: fetch_unread returns the emails it
\* returned to the first
RefetchEmails ==
    /\ p_pc = "fetch"
    /\ p_run = 2
    /\ p_emails' = p_first.emails
    /\ p_steps' = <<StepOk("fetch", [emails_fetched |-> Len(p_first.emails)])>>
    /\ p_pc' = "analyze"
    /\ PipelineFrame
    /\ UNCHANGED <<p_store, p_analyses, p_counts, p_calls>>

\* lines 147-157 in the second call: the analyzer returns for the next
\* email what it returned in the first call, or raises as it did
ReanalyzeEmail ==
    /\ p_pc = "analyze"
    /\ p_run = 2
    /\ p_counts.cursor <= Len(p_emails)
    /\ LET email == p_emails[p_counts.cursor]
           before == SelectSeq(p_first.analyses, LAMBDA a : a.email = email)
       IN IF before # <<>>
          THEN /\ p_analyses' = Append(p_analyses, before[1])
               /\ p_counts' = [p_counts EXCEPT !.cursor = @ + 1]
          ELSE /\ p_counts' = [p_counts EXCEPT !.cursor = @ + 1, !.errors = @ + 1]
               /\ UNCHANGED p_analyses
    /\ p_calls' = [p_calls EXCEPT !.analyze = @ + 1]
    /\ PipelineFrame
    /\ UNCHANGED <<p_pc, p_store, p_emails, p_steps>>

RerunNext ==
    \/ FirstFetchEmails
    \/ FetchFails
    \/ FirstAnalyzeEmail
    \/ FirstAnalyzeEmailFails
    \/ AnalyzerUnavailable
    \/ AnalyzeEnd
    \/ CreateTask
    \/ CreateTaskFails
    \/ CreateEnd
    \/ RunAgain
    \/ RefetchEmails
    \/ ReanalyzeEmail

SpecRerun == PipelineInit /\ [][RerunNext]_vars

\* ------------------------------------------------------------------------
\* Two calls of check_for_completions over one mailbox
\* ------------------------------------------------------------------------
TwiceInit ==
    /\ ResolverIdle
    /\ DirectIdle
    /\ c_calls = 0
    /\ completed_by_other = {}
    /\ PipelineIdle
    /\ RerunIdle
    /\ CommentIdle
    /\ w_scan = 1
    /\ w_mailbox \in UNION {[1..n -> ThreadIds] : n \in 0..MaxEmails}
    /\ w_first = [result |-> NewCompletionResult, attempts |-> [th \in ThreadIds |-> 0]]
    /\ tasks \in [TaskIds -> [source_thread_id : {"T1", "T2", NoThread},
                              status : {NEEDS_ACTION, COMPLETED}]]
    /\ initial_tasks = tasks
    /\ reply_resolves = {}
    /\ pc = "start"
    /\ threads_with_tasks = {}
    /\ processed_threads = {}
    /\ result = NewCompletionResult
    /\ remaining = 0
    /\ mail_calls = 0
    /\ seen = [th \in ThreadIds |-> 0]
    /\ attempts = [th \in ThreadIds |-> 0]
    /\ faults = {}
    /\ rejected = {}

\* fetch_sent_emails, lines 138-153: the list call returns the references
\* of the mailbox
ListMailbox ==
    /\ pc = "list"
    /\ remaining' = Len(w_mailbox)
    /\ mail_calls' = mail_calls + 1
    /\ pc' = "loop"
    /\ UNCHANGED <<resolverVars, auxVars, tasks, initial_tasks, reply_resolves,
                   threads_with_tasks, processed_threads, result, seen, attempts,
                   faults, rejected>>

\* lines 235-255 over the next sent email of the mailbox, a message that
\* _parse_sent_message (lines 75-110) accepts
ScanMailboxEmail ==
    /\ pc = "loop"
    /\ remaining > 0
    /\ \E fail \in {NoFail, ListFail} \cup TaskIds :
          ScanStep([threadId     |-> w_mailbox[Len(w_mailbox) - remaining + 1],
                    date         |-> "rfc2822",
                    internalDate |-> "digits"], fail)
    /\ UNCHANGED <<resolverVars, auxVars, initial_tasks, reply_resolves, pc,
                   threads_with_tasks>>

\* The first call has returned (line 260) and check_for_completions is
\* called again: a new CompletionResult (line 214) and new locals, over
\* the task store the first call left.
Rescan ==
    /\ pc = "done"
    /\ w_scan = 1
    /\ w_scan' = 2
    /\ w_first' = [result |-> result, attempts |-> attempts]
    /\ initial_tasks' = tasks
    /\ pc' = "start"
    /\ threads_with_tasks' = {}
    /\ processed_threads' = {}
    /\ result' = NewCompletionResult
    /\ remaining' = 0
    /\ seen' = [th \in ThreadIds |-> 0]
    /\ attempts' = [th \in ThreadIds |-> 0]
    /\ faults' = {}
    /\ rejected' = {}
    /\ UNCHANGED <<resolverVars, directVars, c_calls, completed_by_other, pipelineVars,
                   rerunVars, commentVars, w_mailbox, tasks, reply_resolves,
                   mail_calls>>

TwiceNext ==
    \/ BuildThreadIndex
    \/ BuildThreadIndexFails
    \/ ListMailbox
    \/ ScanMailboxEmail
    \/ MailAccessFails
    \/ ScanEnd
    \/ Rescan

SpecTwice == TwiceInit /\ [][TwiceNext]_vars

\* ------------------------------------------------------------------------
\* CommentInterpreter._process_task (src/src/comments/comment_interpreter.py)
\* ------------------------------------------------------------------------
\* Largest number of lines in the notes of a task.
MaxLines == 3

\* A line of notes, as COMMAND_PATTERN (line 40) reads it: an @keyword
\* with its arguments, or text.  Two lines are the same text exactly when
\* they are the same record.
Cmd(keyword, arguments) == [kind |-> "command", keyword |-> keyword, arguments |-> arguments]
Text(text) == [kind |-> "text", keyword |-> "", arguments |-> text]
Blank == Text("")
PriorityLine(level) == [kind |-> "priority", keyword |-> "", arguments |-> level]

\* lines 42-50
COMMAND_MAP == {"priority", "due", "snooze", "ignore", "delete", "note", "respond"}
\* lines 52-57
PRIORITY_MAP == {"low", "medium", "high", "urgent"}

NoteLines ==
    {Cmd("due", "2030-01-01"), Cmd("due", "tomorrow"), Cmd("priority", "high"),
     Cmd("ignore", ""), Cmd("delete", ""), Cmd("note", "call back"),
     Cmd("respond", "on it"), Cmd("respond", ""), Cmd("remind", "me"),
     Text("plain"), Blank}

\* parse_commands, lines 115-148
ParseCommands(notes) ==
    LET recognised == SelectSeq(notes, LAMBDA l : l.kind = "command"
                                                 /\ l.keyword \in COMMAND_MAP)
    IN [i \in 1..Len(recognised) |->
           [command_type |-> recognised[i].keyword,
            raw_text     |-> recognised[i],
            arguments    |-> recognised[i].arguments]]

\* lines 170-175: a blank line that follows a blank line is dropped
RECURSIVE CollapseBlanks(_, _)
CollapseBlanks(cleaned, lines) ==
    IF lines = <<>> THEN cleaned
    ELSE IF Head(lines) = Blank /\ cleaned # <<>> /\ cleaned[Len(cleaned)] = Blank
         THEN CollapseBlanks(cleaned, Tail(lines))
         ELSE CollapseBlanks(Append(cleaned, Head(lines)), Tail(lines))

\* line 177: str.strip of the joined text removes the blank lines at both ends
RECURSIVE TrimBlanks(_)
TrimBlanks(lines) ==
    IF lines = <<>> THEN <<>>
    ELSE IF Head(lines) = Blank THEN TrimBlanks(Tail(lines))
    ELSE IF lines[Len(lines)] = Blank THEN TrimBlanks(SubSeq(lines, 1, Len(lines) - 1))
    ELSE lines

\* strip_commands, lines 150-177: lines are removed by their text
StripCommands(notes, commands) ==
    IF notes = <<>> THEN <<>>
    ELSE LET raw_texts == {commands[i].raw_text : i \in 1..Len(commands)}
             lines == SelectSeq(notes, LAMBDA l : l \notin raw_texts)
         IN TrimBlanks(CollapseBlanks(<<>>, lines))

DeleteAction == "__DELETE__"
ExecutionError == "CommentExecutionError"

\* _execute_priority (181-203), _execute_due (205-217), _execute_snooze
\* (219-250), _execute_ignore (252-255), _execute_delete (257-259) and
\* _execute_note (261-268): the task after the handler, and the action it
\* returned or the error it raised
ExecuteHandler(task, command) ==
    CASE command.command_type = "priority" ->
           IF command.arguments \notin PRIORITY_MAP
           THEN [task |-> task, action |-> ExecutionError]
           ELSE LET has_line == \E i \in 1..Len(task.notes) :
                                   task.notes[i].kind = "priority"
                    set_line == [i \in 1..Len(task.notes) |->
                                   IF task.notes[i].kind = "priority"
                                   THEN PriorityLine(command.arguments)
                                   ELSE task.notes[i]]
                    put_first == IF task.notes # <<>>
                                 THEN <<PriorityLine(command.arguments), Blank>>
                                      \o task.notes
                                 ELSE <<PriorityLine(command.arguments)>>
                IN [task   |-> [task EXCEPT !.notes = IF has_line THEN set_line
                                                      ELSE put_first],
                    action |-> "priority changed"]
      [] command.command_type = "due" ->
           IF command.arguments \in {"2030-01-01"}
           THEN [task |-> [task EXCEPT !.due = command.arguments], action |-> "due set"]
           ELSE [task |-> task, action |-> ExecutionError]
      [] command.command_type = "snooze" ->
           IF command.arguments \in {"2 days"}
           THEN [task |-> [task EXCEPT !.due = "snoozed"], action |-> "snoozed"]
           ELSE [task |-> task, action |-> ExecutionError]
      [] command.command_type = "ignore" ->
           [task |-> [task EXCEPT !.status = COMPLETED], action |-> "ignored"]
      [] command.command_type = "delete" ->
           [task |-> task, action |-> DeleteAction]
      [] OTHER ->
           [task   |-> [task EXCEPT !.notes = Append(@, Text(command.arguments))],
            action |-> "note appended"]

\* the flag taken from the last command only
ShouldDeleteLastWins(should_delete, action) == action = DeleteAction

\* lines 483-485
ShouldDelete(should_delete, action) == should_delete \/ action = DeleteAction

CommentFrame ==
    UNCHANGED <<scanVars, resolverVars, directVars, c_calls, completed_by_other,
                pipelineVars, rerunVars, rescanVars, k_initial>>

CommentInit ==
    /\ ResolverIdle
    /\ ScanIdle
    /\ DirectIdle
    /\ c_calls = 0
    /\ completed_by_other = {}
    /\ PipelineIdle
    /\ RerunIdle
    /\ RescanIdle
    /\ k_pc = "start"
    /\ k_task \in [notes  : UNION {[1..n -> NoteLines] : n \in 0..MaxLines},
                    status : {NEEDS_ACTION},
                    due    : {"none"},
                    linked : {"both", "no_thread", "no_email"}]
    /\ k_initial = k_task
    /\ k_commands = <<>>
    /\ k_index = 1
    /\ k_results = <<>>
    /\ k_should_delete = FALSE
    /\ k_calls = NoCommentCalls

CommandResult(command, success) == [command |-> command, success |-> success]

\* lines 469-474
ParseNotes ==
    /\ k_pc = "start"
    /\ k_commands' = ParseCommands(k_task.notes)
    /\ k_pc' = IF k_commands' = <<>> THEN "returned" ELSE "loop"
    /\ CommentFrame
    /\ UNCHANGED <<k_task, k_index, k_results, k_should_delete, k_calls>>

\* lines 476-504, a command other than @respond
ExecuteCommand ==
    /\ k_pc = "loop"
    /\ k_index <= Len(k_commands)
    /\ k_commands[k_index].command_type # "respond"
    /\ LET command == k_commands[k_index]
           out == ExecuteHandler(k_task, command)
       IN IF out.action = ExecutionError
          THEN /\ k_results' = Append(k_results, CommandResult(command, FALSE))
               /\ UNCHANGED <<k_task, k_should_delete>>
          ELSE /\ k_results' = Append(k_results, CommandResult(command, TRUE))
               /\ k_task' = out.task
               /\ k_should_delete' = ShouldDelete(k_should_delete, out.action)
    /\ k_index' = k_index + 1
    /\ CommentFrame
    /\ UNCHANGED <<k_pc, k_commands, k_calls>>

\* lines 476-504 with _execute_respond, lines 368-443.  A call that passed
\* its argument checks ends in one of these ways (lines 394-441): the
\* gmail get raises HttpError or something else, the original has no
\* sender, the LLM fails, the gmail send raises HttpError or something
\* else, or the reply is sent.
ExecuteRespond ==
    /\ k_pc = "loop"
    /\ k_index <= Len(k_commands)
    /\ k_commands[k_index].command_type = "respond"
    /\ LET command == k_commands[k_index]
           failed == /\ k_results' = Append(k_results, CommandResult(command, FALSE))
                     /\ k_index' = k_index + 1
                     /\ UNCHANGED <<k_pc, k_task>>
           escaped == /\ k_pc' = "raised"
                      /\ UNCHANGED <<k_index, k_results, k_task>>
       IN IF k_task.linked # "both" \/ command.arguments = ""
          THEN failed /\ UNCHANGED k_calls
          ELSE \E outcome \in {"fetch_http_error", "fetch_other_error", "no_sender",
                                "llm_error", "send_http_error", "send_other_error",
                                "sent"} :
                 CASE outcome = "fetch_http_error" ->
                        /\ k_calls' = [k_calls EXCEPT !.fetch = @ + 1]
                        /\ failed
                   [] outcome = "fetch_other_error" ->
                        /\ k_calls' = [k_calls EXCEPT !.fetch = @ + 1]
                        /\ escaped
                   [] outcome = "no_sender" ->
                        /\ k_calls' = [k_calls EXCEPT !.fetch = @ + 1]
                        /\ failed
                   [] outcome = "llm_error" ->
                        /\ k_calls' = [k_calls EXCEPT !.fetch = @ + 1, !.llm = @ + 1]
                        /\ failed
                   [] outcome = "send_http_error" ->
                        /\ k_calls' = [k_calls EXCEPT !.fetch = @ + 1, !.llm = @ + 1,
                                                      !.send = @ + 1]
                        /\ failed
                   [] outcome = "send_other_error" ->
                        /\ k_calls' = [k_calls EXCEPT !.fetch = @ + 1, !.llm = @ + 1,
                                                      !.send = @ + 1]
                        /\ escaped
                   [] OTHER ->
                        /\ k_calls' = [k_calls EXCEPT !.fetch = @ + 1, !.llm = @ + 1,
                                                      !.send = @ + 1, !.sent = @ + 1]
                        /\ k_results' = Append(k_results, CommandResult(command, TRUE))
                        /\ k_task' = [k_task EXCEPT !.status = COMPLETED]
                        /\ k_index' = k_index + 1
                        /\ UNCHANGED k_pc
    /\ CommentFrame
    /\ UNCHANGED <<k_commands, k_should_delete>>

\* lines 506-517: the lines of the successful commands are stripped and
\* the task is deleted or written back; the task manager may fail to be
\* built (line 511) and its call may raise
ApplyChanges ==
    /\ k_pc = "loop"
    /\ k_index > Len(k_commands)
    /\ LET successful == SelectSeq(k_results, LAMBDA r : r.success)
           successful_commands == [i \in 1..Len(successful) |-> successful[i].command]
       IN k_task' = [k_task EXCEPT !.notes = StripCommands(@, successful_commands)]
    /\ \E tm \in {"unavailable", "raises", "returns"} :
          /\ k_calls' = IF tm = "unavailable" THEN k_calls
                        ELSE IF k_should_delete
                             THEN [k_calls EXCEPT !.delete = @ + 1]
                             ELSE [k_calls EXCEPT !.update = @ + 1]
          /\ k_pc' = IF tm = "returns" THEN "returned" ELSE "raised"
    /\ CommentFrame
    /\ UNCHANGED <<k_commands, k_index, k_results, k_should_delete>>

CommentNext ==
    \/ ParseNotes
    \/ ExecuteCommand
    \/ ExecuteRespond
    \/ ApplyChanges

SpecComments == CommentInit /\ [][CommentNext]_vars

\* ------------------------------------------------------------------------
\* Properties of the scan (checked under Spec)
\* ------------------------------------------------------------------------
OpenTasksOf(store, th) ==
    {t \in TaskIds : store[t].source_thread_id = th /\ store[t].status = NEEDS_ACTION}

NewlyCompleted(t) == tasks[t].status = NEEDS_ACTION /\ tasks'[t].status = COMPLETED

\* C1: a scan completes, and records in tasks_completed, only task ids that
\* the ReplyResolver returned for the reply of the task's thread; an open
\* task the resolver did not return stays NEEDS_ACTION.
C1_OnlyResolvedTasksCompleted ==
    [][\A t \in TaskIds :
          (\/ NewlyCompleted(t)
           \/ t \in Range(result'.tasks_completed) \ Range(result.tasks_completed))
          => t \in reply_resolves]_vars

\* C3: in every result check_for_completions returns, total_completed,
\* the length of tasks_completed and the sum of the lengths of the lists of
\* thread_task_map are the same number.
C3_ResultCountsAgree ==
    pc = "done" =>
        /\ TotalCompleted(result) = Len(result.tasks_completed)
        /\ Len(result.tasks_completed) = MapTotal(result)

C3_Witness ==
    /\ pc = "done"
    /\ Cardinality(DOMAIN result.thread_task_map) = 2
    /\ Len(result.tasks_completed) = 3
    /\ result.errors # <<>>

\* C4: a scan makes at most one resolution attempt per thread, and a thread
\* that was attempted is in the processed set whatever the attempt's outcome.
C4_AtMostOneResolutionPerThread ==
    \A th \in ThreadIds :
        /\ attempts[th] <= 1
        /\ attempts[th] = 1 => th \in processed_threads

C4_Witness ==
    \E th \in ThreadIds :
        /\ seen[th] >= 2
        /\ attempts[th] = 1
        /\ th \in faults

\* C5: when threads T1 and T2 were both attempted in one scan, the attempt
\* of T1 raised and nothing else failed, then errors has exactly one entry,
\* it names T1, no task of T1 is recorded in the result, and every task of T2
\* that was open is completed and recorded under T2.
C5_PartialFailureIsolation ==
    \A T1, T2 \in ThreadIds :
        (/\ T1 # T2
         /\ attempts[T1] = 1
         /\ attempts[T2] = 1
         /\ faults = {T1})
        => /\ Len(result.errors) = 1
           /\ result.errors[1].thread = T1
           /\ T1 \notin DOMAIN result.thread_task_map
           /\ \A t \in TaskIds :
                initial_tasks[t].source_thread_id = T1
                => t \notin Range(result.tasks_completed)
           /\ \A t \in OpenTasksOf(initial_tasks, T2) :
                /\ tasks[t].status = COMPLETED
                /\ t \in Range(result.tasks_completed)
                /\ T2 \in DOMAIN result.thread_task_map
                /\ t \in Range(result.thread_task_map[T2])

C5_Witness ==
    /\ pc = "done"
    /\ attempts["T1"] = 1
    /\ attempts["T2"] = 1
    /\ faults = {"T2"}
    /\ seen["T2"] = 1
    /\ result.sent_emails_scanned = 2
    /\ "T1" \in DOMAIN result.thread_task_map
    /\ "t1" \in rejected

\* C6: no exception leaves check_for_completions, and a scan in which a
\* collaborator call failed returns a result whose errors list is not empty.
C6_NoExceptionEscapes ==
    /\ pc # "raised"
    /\ (pc = "done" /\ faults # {}) => result.errors # <<>>

\* C7: when no open task is linked to a thread and the task listing works,
\* the scan makes no call to the mail backend, attempts no thread, changes
\* no task and returns the empty result.
C7_ShortCircuit ==
    (/\ pc = "done"
     /\ "tasks_list" \notin faults
     /\ \A t \in TaskIds :
          initial_tasks[t].status = NEEDS_ACTION
          => initial_tasks[t].source_thread_id = NoThread)
    => /\ mail_calls = 0
       /\ result = NewCompletionResult
       /\ tasks = initial_tasks
       /\ \A th \in ThreadIds : attempts[th] = 0

C7_Witness ==
    /\ pc = "done"
    /\ faults = {}
    /\ mail_calls = 0
    /\ result.sent_emails_scanned = 0
    /\ initial_tasks["t1"] = [source_thread_id |-> NoThread, status |-> NEEDS_ACTION]
    /\ initial_tasks["t2"] = [source_thread_id |-> "T1", status |-> COMPLETED]
    /\ initial_tasks["t3"] = [source_thread_id |-> "T2", status |-> COMPLETED]

\* C8: a step of the scan that resolves thread th without a failure, when
\* the resolver returns every open task of th, leaves every task of th
\* completed and every task of another thread, or of no thread, as it was.
C8_FullResolution ==
    [][\A th \in ThreadIds :
          (/\ attempts'[th] = attempts[th] + 1
           /\ th \notin faults'
           /\ OpenTasksOf(tasks, th) \subseteq reply_resolves)
          => /\ \A t \in TaskIds :
                  tasks[t].source_thread_id = th => tasks'[t].status = COMPLETED
             /\ \A t \in TaskIds :
                  tasks[t].source_thread_id # th => tasks'[t] = tasks[t]]_vars

C8_Witness ==
    /\ pc = "done"
    /\ attempts = [th \in ThreadIds |-> IF th = "T1" THEN 1 ELSE 0]
    /\ faults = {}
    /\ OpenTasksOf(initial_tasks, "T1") = {"t1", "t2"}
    /\ reply_resolves = {"t1", "t2"}
    /\ tasks["t1"].status = COMPLETED
    /\ tasks["t2"].status = COMPLETED
    /\ tasks["t3"] = [source_thread_id |-> "T2", status |-> NEEDS_ACTION]

\* C9: in a resolution attempt during which the task store rejects the
\* completion request of one task, the tasks whose requests it accepted are
\* recorded in tasks_completed and in thread_task_map under the thread, the
\* rejected task is not recorded, and errors gains one entry.
C9_MutationErrorPerTask ==
    [][\A th \in ThreadIds :
          (attempts'[th] = attempts[th] + 1 /\ rejected' # rejected)
          => LET accepted == {t \in TaskIds : NewlyCompleted(t)}
             IN /\ accepted \subseteq Range(result'.tasks_completed)
                /\ accepted # {} =>
                      /\ th \in DOMAIN result'.thread_task_map
                      /\ Range(result'.thread_task_map[th]) = accepted
                /\ (rejected' \ rejected) \cap Range(result'.tasks_completed) = {}
                /\ Len(result'.errors) = Len(result.errors) + 1]_vars

\* C10: the step in which the mail backend fails with an access error ends
\* the scan, appends the access error to errors and changes nothing else of
\* the result: the scanned count stays the number of emails yielded before
\* the failure, and no task is touched.
C10_AccessErrorKeepsAccumulated ==
    [][("mail_access" \in faults' /\ "mail_access" \notin faults)
       => /\ pc' = "done"
          /\ result' = [result EXCEPT !.errors = Append(@, AccessError)]
          /\ result'.sent_emails_scanned = seen["T1"] + seen["T2"] + seen["T3"]
          /\ tasks' = tasks]_vars

C10_Witness ==
    /\ pc = "done"
    /\ "mail_access" \in faults
    /\ result.sent_emails_scanned = 2
    /\ Len(result.tasks_completed) = 2
    /\ Len(result.errors) = 2
    /\ result.errors[2] = AccessError

\* ------------------------------------------------------------------------
\* Properties of ReplyResolver.resolve (checked under SpecResolve)
\* ------------------------------------------------------------------------
\* C2: every id in the list resolve returns is the id of one of the tasks
\* passed to the call, whatever the LLM answered.
C2_NoFabricatedIds ==
    r_pc = "returned" => Range(r_result) \subseteq TaskIdsOf(r_tasks)

C2_Witness ==
    /\ r_pc = "returned"
    /\ r_result = <<"t1">>
    /\ r_response.shape = "list"
    /\ \E i \in 1..Len(r_response.entries) :
          LET e == r_response.entries[i]
          IN /\ DOMAIN e = EntryKeys
             /\ e["task_id"] = "zz"
             /\ e["resolved"] = "true"

\* C11: resolve makes at most MaxRetries + 1 calls of the LLM, all with
\* the same request; a call whose response parses as JSON ends resolve with
\* a returned list; and resolve raises LLMResponseError after a response
\* that is not JSON only when that was call number MaxRetries + 1.
C11_RetryUntilJsonParses ==
    /\ r_calls <= MaxRetries + 1
    /\ Cardinality(r_sent) <= 1
    /\ (r_llm_outcome = "returned" /\ r_response.shape # "not_json")
       => r_pc = "returned"
    /\ (r_llm_outcome = "returned" /\ r_response.shape = "not_json")
       => IF r_calls = MaxRetries + 1
          THEN r_pc = "raised" /\ r_error = ResponseError
          ELSE r_pc = "attempt"

\* C12: once a call of the LLM ended in an authentication, rate-limit or
\* connection error, resolve has raised that same error, on whichever
\* attempt it happened, and no further call of the LLM is made.
C12_FatalErrorsPropagate ==
    /\ [](r_llm_outcome \in FatalErrors
            => r_pc = "raised" /\ r_error = r_llm_outcome)
    /\ [][(r_llm_outcome \in FatalErrors) => r_calls' = r_calls]_vars

C12_Witness ==
    /\ r_llm_outcome = RateLimitError
    /\ r_error = RateLimitError
    /\ r_pc = "raised"
    /\ r_attempt = MaxRetries
    /\ r_calls = MaxRetries + 1
    /\ r_response.shape = "not_json"

\* C13: resolve called with an empty task list makes no call of the LLM,
\* creates no adapter, and returns the empty list, whatever the reply body
\* and the subject are.
C13_EmptyTaskListShortCircuits ==
    r_tasks = <<>>
    => /\ r_calls = 0
       /\ r_sent = {}
       /\ r_adapter # "created"
       /\ r_pc \in {"call", "returned"}
       /\ r_pc = "returned" => r_result = <<>>

C13_Witness ==
    /\ r_tasks = <<>>
    /\ r_pc = "returned"
    /\ r_adapter = "none"
    /\ r_reply.body_len > MAX_REPLY_LENGTH
    /\ r_reply.subject # ""

\* C14: every id in the list resolve returns is the task_id of an entry of
\* the LLM output whose resolved field is the boolean true.
C14_OnlyExplicitPositive ==
    r_pc = "returned"
    => \A id \in Range(r_result) :
          \E i \in 1..Len(r_response.entries) :
             LET e == r_response.entries[i]
             IN /\ IsObject(e)
                /\ DOMAIN e = EntryKeys
                /\ e["task_id"] = id
                /\ e["resolved"] = "true"

\* ------------------------------------------------------------------------
\* Properties of the direct calls (checked under SpecDirect)
\* ------------------------------------------------------------------------
\* C15: a call of check_thread that meets no failure of the task store
\* raises nothing, completes exactly the open tasks of the thread that the
\* resolver returns for the reply, and returns their ids; it completes
\* nothing when the resolver returns none.
C15_CheckThreadCompletesResolved ==
    [][\A th \in ThreadIds :
          (/\ d_calls' = d_calls + 1
           /\ d_last'.op = "check_thread"
           /\ d_last'.arg = th
           /\ d_last'.fault = NoFail)
          => LET expected == OpenTasksOf(tasks, th) \cap reply_resolves
             IN /\ d_last'.raised = "none"
                /\ Range(d_last'.returned) = expected
                /\ {t \in TaskIds : NewlyCompleted(t)} = expected]_vars

\* C16: complete_task on a task that is already COMPLETED, when the task
\* store works, raises nothing and changes nothing: the status stays
\* COMPLETED, as after the first completion; and the first completion of
\* a task leaves it COMPLETED.
C16_CompleteTaskIdempotent ==
    [][\A t \in TaskIds :
          (/\ d_calls' = d_calls + 1
           /\ d_last'.op = "complete_task"
           /\ d_last'.arg = t
           /\ d_last'.fault = NoFail)
          => /\ d_last'.raised = "none"
             /\ tasks'[t].status = COMPLETED
             /\ tasks[t].status = COMPLETED => tasks' = tasks]_vars

C16_Witness ==
    /\ d_calls = 2
    /\ d_last = [op |-> "complete_task", arg |-> "t2", reply |-> FALSE,
                 fault |-> NoFail, returned |-> <<"t2">>, raised |-> "none"]
    /\ initial_tasks["t2"].status = COMPLETED
    /\ initial_tasks["t1"].status = NEEDS_ACTION
    /\ tasks = initial_tasks

\* ------------------------------------------------------------------------
\* Properties of the pipeline (checked under SpecPipeline)
\* ------------------------------------------------------------------------
\* C17: when the fetch step fails, run raises nothing and returns a result
\* of exactly three steps fetch, analyze, create_tasks, the first failed
\* with an error text and the other two skipped, without a call of the
\* analyzer or the task manager, and the result is not a success.
C17_FetchFailureSkipsLaterSteps ==
    (Len(p_steps) >= 1 /\ ~p_steps[1].success)
    => /\ p_pc = "returned"
       /\ Len(p_steps) = 3
       /\ p_steps[1].name = "fetch" /\ p_steps[1].error # "none"
       /\ p_steps[2].name = "analyze" /\ "skipped" \in DOMAIN p_steps[2]
       /\ p_steps[3].name = "create_tasks" /\ "skipped" \in DOMAIN p_steps[3]
       /\ p_calls = NoPipelineCalls
       /\ ~PipelineSuccess(p_steps)

\* C18: a run whose three steps succeed, on a store that held no task for
\* any fetched email, reports as many tasks created as tasks found and no
\* duplicate skipped.
C18_OneTaskPerExtractedTask ==
    (/\ p_pc = "returned"
     /\ Len(p_steps) = 3
     /\ PipelineSuccess(p_steps)
     /\ \A i \in 1..Len(p_emails) : p_initial_store[p_emails[i]] = 0)
    => /\ p_steps[3].details.tasks_created = p_steps[2].details.tasks_found
       /\ p_steps[3].details.duplicates_skipped = 0

\* ------------------------------------------------------------------------
\* Properties of CompletionResult (checked under SpecResult)
\* ------------------------------------------------------------------------
\* C19: after any sequence of add_completed_tasks and add_error calls on a
\* fresh result, the length of tasks_completed is the sum of the lengths of
\* the lists of thread_task_map, and total_completed is that length.
C19_ResultInvariantUnderAnyCalls ==
    /\ Len(result.tasks_completed) = MapTotal(result)
    /\ TotalCompleted(result) = Len(result.tasks_completed)

\* ------------------------------------------------------------------------
\* Properties of the scan beside another actor (checked under SpecConc)
\* ------------------------------------------------------------------------
\* C20: when the scan takes up a thread of its thread set whose tasks have
\* all been completed since the set was built, and the task store works,
\* the step changes no task and adds nothing to the result but the scanned
\* count: no completed id, no matched thread, no error.
C20_OpenTasksReadAtResolutionTime ==
    [][\A th \in ThreadIds :
          (/\ attempts'[th] = attempts[th] + 1
           /\ OpenTasksOf(tasks, th) = {}
           /\ th \notin faults')
          => /\ tasks' = tasks
             /\ result' = [result EXCEPT !.sent_emails_scanned = @ + 1]]_vars

C20_Witness ==
    /\ pc = "done"
    /\ faults = {}
    /\ attempts["T1"] = 1
    /\ OpenTasksOf(initial_tasks, "T1") = {"t1", "t2"}
    /\ {"t1", "t2"} \subseteq completed_by_other
    /\ initial_tasks["t3"] = [source_thread_id |-> "T1", status |-> COMPLETED]
    /\ "T1" \notin DOMAIN result.thread_task_map
    /\ result.threads_matched = 0
    /\ result.tasks_completed = <<>>
    /\ result.errors = <<>>
    /\ result.sent_emails_scanned >= 1

\* ------------------------------------------------------------------------
\* Further properties of the scan (checked under Spec)
\* ------------------------------------------------------------------------
\* C21: when the thread set is not empty, the scanned count of the result
\* is the number of sent emails the scan took from the mailbox, whether
\* the email was a duplicate of a processed thread, of an unmatched thread,
\* or of a thread whose resolution failed.
C21_ScannedCountsEveryEmail ==
    (pc = "done" /\ threads_with_tasks # {})
    => result.sent_emails_scanned = seen["T1"] + seen["T2"] + seen["T3"]

C21_Witness ==
    /\ pc = "done"
    /\ threads_with_tasks # {}
    /\ seen = [th \in ThreadIds |-> CASE th = "T1" -> 2 [] th = "T3" -> 1 [] OTHER -> 0]
    /\ "T1" \in faults
    /\ "T3" \notin threads_with_tasks
    /\ result.sent_emails_scanned = 3

\* C22: the step that takes a sent email of a thread outside the thread
\* set touches no task, makes no resolution attempt and no further mail
\* call than the one that fetched the email, adds the thread to the
\* processed set, and changes nothing of the result but the scanned count.
C22_UnmatchedThreadFrame ==
    [][\A th \in ThreadIds :
          (seen'[th] = seen[th] + 1 /\ th \notin threads_with_tasks)
          => /\ tasks' = tasks
             /\ attempts' = attempts
             /\ mail_calls' = mail_calls + 1
             /\ processed_threads' = processed_threads \cup {th}
             /\ result' = [result EXCEPT !.sent_emails_scanned = @ + 1]]_vars

C22_Witness ==
    /\ pc = "done"
    /\ threads_with_tasks = {"T1", "T2"}
    /\ seen = [th \in ThreadIds |-> IF th = "T3" THEN 2 ELSE 0]
    /\ processed_threads = {"T3"}
    /\ result = [NewCompletionResult EXCEPT !.sent_emails_scanned = 2]
    /\ tasks = initial_tasks

\* C24: the thread set the scan builds is exactly the set of thread links
\* of the open tasks that have one, and a task without a thread link is
\* never changed by the scan.
C24_OnlyLinkedOpenTasksVisible ==
    /\ (pc # "start" /\ "tasks_list" \notin faults)
       => threads_with_tasks =
             {initial_tasks[t].source_thread_id :
                 t \in {u \in TaskIds :
                           /\ initial_tasks[u].status = NEEDS_ACTION
                           /\ initial_tasks[u].source_thread_id # NoThread}}
    /\ \A t \in TaskIds :
          initial_tasks[t].source_thread_id = NoThread => tasks[t] = initial_tasks[t]

C24_Witness ==
    /\ pc = "done"
    /\ threads_with_tasks = {"T1"}
    /\ initial_tasks["t1"] = [source_thread_id |-> "T1", status |-> NEEDS_ACTION]
    /\ initial_tasks["t2"] = [source_thread_id |-> "T1", status |-> NEEDS_ACTION]
    /\ initial_tasks["t3"] = [source_thread_id |-> NoThread, status |-> NEEDS_ACTION]
    /\ attempts["T1"] = 1
    /\ tasks["t1"].status = COMPLETED
    /\ tasks["t3"].status = NEEDS_ACTION

\* C28: when the scan has returned, the tasks it moved to COMPLETED in
\* the task store are exactly the tasks listed in tasks_completed.
C28_ResultAgreesWithStore ==
    pc = "done"
    => \A t \in TaskIds :
          (initial_tasks[t].status = NEEDS_ACTION /\ tasks[t].status = COMPLETED)
          <=> t \in Range(result.tasks_completed)

\* ------------------------------------------------------------------------
\* Further properties of ReplyResolver.resolve (checked under SpecResolve)
\* ------------------------------------------------------------------------
WellFormed(entry) == IsObject(entry) /\ DOMAIN entry = EntryKeys

RECURSIVE IsSubsequence(_, _)
IsSubsequence(a, b) ==
    IF a = <<>> THEN TRUE
    ELSE IF b = <<>> THEN FALSE
    ELSE IF Head(a) = Head(b) THEN IsSubsequence(Tail(a), Tail(b))
    ELSE IsSubsequence(a, Tail(b))

\* C23: a response whose resolved_tasks is a list never makes resolve
\* raise, whatever entries lack a key or are not objects; the ids of the
\* well-formed entries with resolved true and the id of a passed task are
\* all returned, in the order of the response; and the returned list is
\* the one the response gives with its malformed entries taken out.
C23_MalformedEntriesSkipped ==
    (r_llm_outcome = "returned" /\ r_response.shape = "list")
    => LET entries == r_response.entries
           positive == SelectSeq(entries,
                          LAMBDA e : /\ WellFormed(e)
                                     /\ e["resolved"] = "true"
                                     /\ e["task_id"] \in ValidIds(r_tasks))
           kept == SelectSeq(entries, WellFormed)
       IN /\ r_pc = "returned"
          /\ IsSubsequence([i \in 1..Len(positive) |-> positive[i]["task_id"]],
                           r_result)
          /\ r_result = ResolvedIds(kept, ValidIds(r_tasks))

C23_Witness ==
    /\ r_pc = "returned"
    /\ r_result = <<"t2">>
    /\ r_tasks = <<[id |-> "t1"], [id |-> "t2"]>>
    /\ Len(r_response.entries) = 2
    /\ ~WellFormed(r_response.entries[1])
    /\ "resolved" \notin DOMAIN r_response.entries[1]
    /\ r_response.entries[2] = [task_id |-> "t2", resolved |-> "true"]

\* ------------------------------------------------------------------------
\* Properties of CommentInterpreter._process_task (checked under SpecComments)
\* ------------------------------------------------------------------------
\* C25: when _process_task returns for a task with commands, there is one
\* result per recognised command, in note order; the line of every failed
\* command is still in the notes and the line of every successful command
\* is not; and the task manager was called once to write or delete the task.
C25_FailedCommandsStayInNotes ==
    (k_pc = "returned" /\ k_commands # <<>>)
    => /\ Len(k_results) = Len(k_commands)
       /\ \A i \in 1..Len(k_results) :
             /\ k_results[i].command = k_commands[i]
             /\ ~k_results[i].success
                => k_commands[i].raw_text \in Range(k_task.notes)
             /\ k_results[i].success
                => k_commands[i].raw_text \notin Range(k_task.notes)
       /\ k_calls.update + k_calls.delete = 1

\* C26: for notes with an @delete line, wherever it stands, update_task
\* is never called and delete_task has been called exactly once when
\* _process_task returns; for notes with a recognised command and no
\* @delete line, delete_task is never called and update_task has been
\* called exactly once when _process_task returns.
C26_DeleteExcludesUpdate ==
    LET lines == Range(k_initial.notes)
        has_delete == \E l \in lines : l.kind = "command" /\ l.keyword = "delete"
        has_command == \E l \in lines : l.kind = "command" /\ l.keyword \in COMMAND_MAP
    IN /\ has_delete
          => /\ k_calls.update = 0
             /\ k_calls.delete <= 1
             /\ k_pc = "returned" => k_calls.delete = 1
       /\ (has_command /\ ~has_delete)
          => /\ k_calls.delete = 0
             /\ k_calls.update <= 1
             /\ k_pc = "returned" => k_calls.update = 1

C26_Witness ==
    /\ k_pc = "returned"
    /\ k_initial.notes = <<Cmd("delete", ""), Cmd("due", "tomorrow"), Cmd("ignore", "")>>
    /\ k_calls.delete = 1
    /\ k_calls.update = 0
    /\ k_task.status = COMPLETED
    /\ Len(k_results) = 3

\* C27: a step that executes an @respond command without sending a reply
\* records the command as failed with a CommentExecutionError and leaves
\* the status of the task as it was; the status changes only in a step
\* that sent the reply; and no send is attempted for a task without a
\* thread id or an email id, or for an empty message.
C27_RespondCompletesOnlyAfterSend ==
    [][(/\ k_pc = "loop"
        /\ k_index <= Len(k_commands)
        /\ k_commands[k_index].command_type = "respond"
        /\ <<k_pc, k_index>>' # <<k_pc, k_index>>)
       => /\ k_calls'.sent = k_calls.sent
             => /\ k_pc' = "loop"
                /\ k_results' = Append(k_results,
                                       CommandResult(k_commands[k_index], FALSE))
                /\ k_task'.status = k_task.status
          /\ k_task'.status # k_task.status => k_calls'.sent = k_calls.sent + 1
          /\ (k_task.linked # "both" \/ k_commands[k_index].arguments = "")
             => k_calls' = k_calls]_vars

\* ------------------------------------------------------------------------
\* Properties of two scans over one mailbox (checked under SpecTwice)
\* ------------------------------------------------------------------------
\* C29: after a first scan that returned without errors, a second scan of
\* the same sent emails completes no task and matches no thread, at any
\* point up to its return, and makes no resolution attempt for a thread
\* the first scan recorded as resolved.
C29_SecondScanCompletesNothing ==
    (w_scan = 2 /\ w_first.result.errors = <<>>)
    => /\ TotalCompleted(result) = 0
       /\ result.threads_matched = 0
       /\ \A th \in DOMAIN w_first.result.thread_task_map : attempts[th] = 0

C29_Witness ==
    /\ w_scan = 2
    /\ pc = "done"
    /\ w_first.result.errors = <<>>
    /\ Len(w_first.result.tasks_completed) = 2
    /\ Len(w_mailbox) = MaxEmails
    /\ result.sent_emails_scanned = Len(w_mailbox)
    /\ result.errors = <<>>

\* ------------------------------------------------------------------------
\* Properties of two runs of the pipeline (checked under SpecRerun)
\* ------------------------------------------------------------------------
\* C30: no step of run adds a task for an email that has a task in the
\* store; and in a second run over the emails and the analysis results of
\* a first run whose three steps succeeded, no task is created, and when
\* its create_tasks step succeeds duplicates_skipped equals tasks_found.
C30_NoTaskForEmailWithTask ==
    /\ [][\A e \in EmailIds : p_store[e] > 0 => p_store'[e] = p_store[e]]_vars
    /\ []((/\ p_run = 2
            /\ Len(p_first.steps) = 3
            /\ PipelineSuccess(p_first.steps))
           => /\ p_counts.created = 0
              /\ p_store = p_initial_store
              /\ (p_pc = "returned" /\ Len(p_steps) = 3 /\ p_steps[3].success)
                 => /\ p_steps[3].details.tasks_created = 0
                    /\ p_steps[3].details.duplicates_skipped
                          = p_steps[2].details.tasks_found)

C30_Witness ==
    /\ p_run = 2
    /\ p_pc = "returned"
    /\ Len(p_first.steps) = 3
    /\ PipelineSuccess(p_first.steps)
    /\ p_first.steps[3].details.tasks_created = 2
    /\ Len(p_steps) = 3
    /\ p_steps[3].success
    /\ p_steps[3].details.duplicates_skipped = 3
    /\ p_calls.find = 3
    /\ p_calls.create = 0

====
